---- MODULE Spec2Model ----
(***************************************************************************)
(* Model of the parameter lowering pass of gir,                            *)
(* src/analysis/function_parameters.rs: `analyze` followed by              *)
(* `Parameters::analyze_return`.                                           *)
(*                                                                         *)
(* Strings are sequences of UTF-8 bytes, so that `ends_with`, `find`,      *)
(* keyword mangling and byte-indexed slicing are computed and not assumed: *)
(* an ASCII byte is written as its character ("l"), any other byte as      *)
(* "x" and its two hexadecimal digits ("xC3").  Positions                  *)
(* are 0-based as in the source; TLA+ sequences are 1-based, so slot `i`   *)
(* of a Vec is element `i + 1` of the sequence that models it.             *)
(*                                                                         *)
(* Fields carried: every field of Parameter / CParameter / RustParameter / *)
(* Transformation that `analyze` branches on or computes (name, typ,       *)
(* instance_parameter, direction, array_length, transfer,                  *)
(* caller_allocates, ind_c, ind_rust, the transformation variant).  The    *)
(* fields that are copied through unchanged or come whole from a           *)
(* collaborator (c_type, nullable, is_error, scope, closure, destroy,      *)
(* allow_none, ref_mode, to_glib_extra, in_trait) are not carried.         *)
(***************************************************************************)
EXTENDS Integers, Sequences, FiniteSets

VARIABLES
    function_parameters,    \* &[library::Parameter], the descriptor list
    configured_functions,   \* configured parameters of the matching functions
    disable_length_detect,  \* bool
    async_func,             \* bool
    ret,                    \* array_length of the return value, Option<u32>
    overflow_checks,        \* build profile: are arithmetic overflow checks on
    pc,                     \* "start" | "analyzed" | "returned" | "panicked"
    parameters              \* the Parameters value under construction

vars == << function_parameters, configured_functions, disable_length_detect,
           async_func, ret, overflow_checks, pc, parameters >>

----------------------------------------------------------------------------
(* Bounds *)

MaxParams == 2

----------------------------------------------------------------------------
(* Option<T> *)

None == [some |-> FALSE]
Some(x) == [some |-> TRUE, val |-> x]

(* slice::get with a 0-based index *)
get(s, i) == IF i < Len(s) THEN Some(s[i + 1]) ELSE None

----------------------------------------------------------------------------
(* Strings *)

s_data        == << "d", "a", "t", "a" >>
s_len         == << "l", "e", "n" >>
s_length      == << "l", "e", "n", "g", "t", "h" >>
s_strlen      == << "s", "t", "r", "l", "e", "n" >>
s_lens        == << "l", "e", "n", "s" >>
s_callback    == << "c", "a", "l", "l", "b", "a", "c", "k" >>
s_user_data   == << "u", "s", "e", "r", "_", "d", "a", "t", "a" >>
s_length_data == << "l", "e", "n", "g", "t", "h", "_", "d", "a", "t", "a" >>
s_type        == << "t", "y", "p", "e" >>
s_type_       == << "t", "y", "p", "e", "_" >>
s_x           == << "x" >>
s_missing     == << "m", "i", "s", "s", "i", "n", "g" >>
s_empty       == << >>
s_eab         == << "xC3", "xA9", "a", "b" >>            \* "\u00E9ab"
s_elen        == << "xC3", "xA9", "l", "e", "n" >>       \* "\u00E9len"

ends_with(s, suffix) ==
    /\ Len(s) >= Len(suffix)
    /\ SubSeq(s, Len(s) - Len(suffix) + 1, Len(s)) = suffix

(* the bytes 0x80..0xBF, which continue a multi-byte character *)
CONTINUATION_BYTES ==
    { "x80", "x81", "x82", "x83", "x84", "x85", "x86", "x87",
      "x88", "x89", "x8A", "x8B", "x8C", "x8D", "x8E", "x8F",
      "x90", "x91", "x92", "x93", "x94", "x95", "x96", "x97",
      "x98", "x99", "x9A", "x9B", "x9C", "x9D", "x9E", "x9F",
      "xA0", "xA1", "xA2", "xA3", "xA4", "xA5", "xA6", "xA7",
      "xA8", "xA9", "xAA", "xAB", "xAC", "xAD", "xAE", "xAF",
      "xB0", "xB1", "xB2", "xB3", "xB4", "xB5", "xB6", "xB7",
      "xB8", "xB9", "xBA", "xBB", "xBC", "xBD", "xBE", "xBF" }

(* str::is_char_boundary with a 0-based byte index *)
is_char_boundary(s, index) ==
    IF index = 0 THEN TRUE
    ELSE IF index >= Len(s) THEN index = Len(s)
    ELSE s[index + 1] \notin CONTINUATION_BYTES

(* &s[begin..end]: the slice panics unless both ends are char boundaries *)
slice_panics(s, begin, end) ==
    \/ begin > end
    \/ end > Len(s)
    \/ ~is_char_boundary(s, begin)
    \/ ~is_char_boundary(s, end)

(* str::find(pat).is_some() *)
contains(s, pat) ==
    \E i \in 1..(Len(s) - Len(pat) + 1) : SubSeq(s, i, i + Len(pat) - 1) = pat

----------------------------------------------------------------------------
(* Collaborators of the pass: the type environment, the type classifier,   *)
(* the keyword mangler, the configuration matcher, the string-type         *)
(* override, the printable-type formatter and the out-parameter promotion  *)
(* predicate.                                                              *)

(* env.library.type_(typ): the definition of each type identifier *)
type_(typ) ==
    CASE typ = "Utf8"        -> [kind |-> "Fundamental", fund |-> "Utf8"]
      [] typ = "Filename"    -> [kind |-> "Fundamental", fund |-> "Filename"]
      [] typ = "UInt"        -> [kind |-> "Fundamental", fund |-> "UInt"]
      [] typ = "Boolean"     -> [kind |-> "Fundamental", fund |-> "Boolean"]
      [] typ = "Unsupported" -> [kind |-> "Fundamental", fund |-> "Unsupported"]
      [] typ = "CArray"      -> [kind |-> "CArray"]
      [] typ = "AliasUtf8"   -> [kind |-> "Alias", typ |-> "Utf8"]
      [] typ = "AliasUInt"   -> [kind |-> "Alias", typ |-> "UInt"]
      [] typ = "Borrowed"    -> [kind |-> "Custom"]

(* ConversionType::of(env, typ) *)
RECURSIVE ConversionType_of(_)
ConversionType_of(typ) ==
    LET t == type_(typ) IN
    CASE t.kind = "Fundamental" ->
            (CASE t.fund \in {"Utf8", "Filename"} -> "Pointer"
               [] t.fund = "UInt"                 -> "Direct"
               [] t.fund = "Boolean"              -> "Scalar"
               [] OTHER                           -> "Unknown")
      [] t.kind = "Alias"  -> ConversionType_of(t.typ)
      [] t.kind = "CArray" -> "Pointer"
      [] t.kind = "Custom" -> "Borrow"
      [] OTHER             -> "Unknown"

(* nameutil::mangle_keywords *)
KEYWORDS == { s_type }
mangle_keywords(name) ==
    IF name \in KEYWORDS THEN name \o << "_" >> ELSE name

(* configured_functions.matched_parameters(&name) *)
matched_parameters(configured, name) ==
    SelectSeq(configured, LAMBDA p : p.ident = name)

(* override_string_type_parameter(env, typ, &configured_parameters) *)
override_string_type_parameter(typ, configured_parameters) ==
    LET with == SelectSeq(configured_parameters, LAMBDA p : p.string_type.some)
    IN  IF Len(with) = 0 THEN typ
        ELSE IF type_(typ).kind = "Fundamental" /\ type_(typ).fund = "Utf8"
             THEN with[1].string_type.val
             ELSE typ

(* rust_type(env, typ).into_string() *)
rust_type(typ) ==
    CASE typ = "Utf8"      -> "&str"
      [] typ = "Filename"  -> "&std::path::Path"
      [] typ = "UInt"      -> "u32"
      [] typ = "Boolean"   -> "bool"
      [] typ = "CArray"    -> "&[u8]"
      [] typ = "AliasUtf8" -> "AliasUtf8"
      [] typ = "AliasUInt" -> "AliasUInt"
      [] OTHER             -> "/*Unknown type*/"

(* out_parameters::can_as_return(env, par) *)
can_as_return(par) ==
    CASE ConversionType_of(par.typ) \in {"Direct", "Scalar"} -> TRUE
      [] ConversionType_of(par.typ) = "Pointer" -> ~par.caller_allocates
      [] OTHER -> FALSE

----------------------------------------------------------------------------
(* src/analysis/function_parameters.rs *)

PRIMARY == { "ToGlibDirect", "ToGlibScalar", "ToGlibPointer", "ToGlibBorrow",
             "ToGlibUnknown", "ToSome", "IntoRaw" }

(* TransformationType::is_to_glib *)
is_to_glib(transformation_type) == transformation_type.kind \in PRIMARY

(* Parameters::new *)
Parameters_new ==
    [ rust_parameters |-> << >>, c_parameters |-> << >>, transformations |-> << >> ]

get_length_type(array_name, length_name, length_typ) ==
    [ kind |-> "Length",
      array_name |-> array_name,
      array_length_name |-> length_name,
      array_length_type |-> rust_type(length_typ) ]

(* mutant: only the exact name is removed, the suffix rule is lost *)
async_param_to_remove_exact(name) == name = s_user_data

async_param_to_remove(name) ==
    name = s_user_data \/ ends_with(name, s_data)

(* is_length: [panic, val]; val is the bool returned.  `len` is the byte   *)
(* length of the name and &par.name[len - 3..len] is a byte-indexed slice. *)
is_length(par) ==
    LET len == Len(par.name) IN
    IF par.direction # "In" THEN [panic |-> FALSE, val |-> FALSE]
    ELSE IF len >= 3 /\ slice_panics(par.name, len - 3, len)
         THEN [panic |-> TRUE, val |-> FALSE]
    ELSE IF len >= 3 /\ SubSeq(par.name, len - 3 + 1, len) = s_len
         THEN [panic |-> FALSE, val |-> TRUE]
    ELSE IF contains(par.name, s_length) THEN [panic |-> FALSE, val |-> TRUE]
    ELSE [panic |-> FALSE, val |-> FALSE]

RECURSIVE has_length(_)
has_length(typ) ==
    LET t == type_(typ) IN
    CASE t.kind = "Fundamental" -> t.fund \in {"Utf8", "Filename", "OsString"}
      [] t.kind \in {"CArray", "FixedArray", "Array", "PtrArray", "List",
                     "SList", "HashTable"} -> TRUE
      [] t.kind = "Alias" -> has_length(t.typ)
      [] OTHER -> FALSE

(* `pos - 1` on usize with pos = 0: the subtraction panics when the build  *)
(* has overflow checks (debug profile) and wraps to usize::MAX otherwise   *)
(* (release profile).  USIZE_MAX stands for usize::MAX: the largest        *)
(* integer of the model checker, above the length of every slice.          *)
USIZE_MAX == 2147483647

sub_one_overflows(pos) == pos = 0

wrapping_sub_one(pos) == IF pos = 0 THEN USIZE_MAX ELSE pos - 1

(* detect_length: [panic, val]; val is the Option<&String> returned *)
detect_length(pos, par, params, checks) ==
    IF is_length(par).panic THEN [panic |-> TRUE, val |-> None]
    ELSE IF ~is_length(par).val THEN [panic |-> FALSE, val |-> None]
    ELSE IF sub_one_overflows(pos) /\ checks THEN [panic |-> TRUE, val |-> None]
    ELSE LET p == get(params, wrapping_sub_one(pos))
             array == IF p.some /\ has_length(p.val.typ) THEN p ELSE None
         IN  [ panic |-> FALSE,
               val |-> IF array.some THEN Some(array.val.name) ELSE None ]

(* The HashMap `array_lengths`: length argument position => array name.    *)
(* `collect` inserts the pairs in order, a later pair replacing an earlier *)
(* one with the same key.                                                  *)
array_lengths(params) ==
    LET keys == { params[i].array_length.val :
                    i \in { j \in 1..Len(params) : params[j].array_length.some } }
        last(k) == CHOOSE i \in 1..Len(params) :
                      /\ params[i].array_length = Some(k)
                      /\ \A j \in (i + 1)..Len(params) :
                            params[j].array_length # Some(k)
    IN  [ k \in keys |-> params[last(k)].name ]

hashmap_get(map, key) == IF key \in DOMAIN map THEN Some(map[key]) ELSE None

(* configured_parameters.iter().filter_map(|p| p.length_of.as_ref()).next() *)
configured_length_of(configured_parameters) ==
    LET with == SelectSeq(configured_parameters, LAMBDA p : p.length_of.some)
    IN  IF Len(with) = 0 THEN None ELSE with[1].length_of

(* analyze, lines 180-188: is the parameter on the surface list by default *)
default_add_rust_parameter(par, is_async) ==
    LET by_direction ==
            CASE par.direction \in {"In", "InOut"} -> TRUE
              [] par.direction = "Return" -> FALSE
              [] par.direction = "Out" -> ~can_as_return(par) /\ ~is_async
    IN  IF is_async /\ async_param_to_remove(par.name) THEN FALSE ELSE by_direction

(* mutant: the array_length back-links of the descriptors are not consulted *)
resolve_array_name_no_backlink(pos, par, params, configured_parameters, disable, checks) ==
    LET configured == configured_length_of(configured_parameters)
    IN  IF ~configured.some /\ ~disable
        THEN detect_length(pos, par, params, checks)
        ELSE [panic |-> FALSE, val |-> configured]

(* mutant: the heuristic runs although length detection is disabled *)
resolve_array_name_ignores_disable(pos, par, params, configured_parameters, disable, checks) ==
    LET configured == configured_length_of(configured_parameters)
        linked == IF configured.some THEN configured
                  ELSE hashmap_get(array_lengths(params), pos)
    IN  IF ~linked.some
        THEN detect_length(pos, par, params, checks)
        ELSE [panic |-> FALSE, val |-> linked]

(* analyze, lines 190-199: the array this parameter is the length of;      *)
(* [panic, val] as for detect_length                                       *)
resolve_array_name(pos, par, params, configured_parameters, disable, checks) ==
    LET configured == configured_length_of(configured_parameters)
        linked == IF configured.some THEN configured
                  ELSE hashmap_get(array_lengths(params), pos)
    IN  IF ~linked.some /\ ~disable
        THEN detect_length(pos, par, params, checks)
        ELSE [panic |-> FALSE, val |-> linked]

(* mutant: the override fires for Direct only *)
resolve_ownership_direct_only(par, conversion) ==
    IF conversion = "Direct"
    THEN [caller_allocates |-> FALSE, transfer |-> "None"]
    ELSE [caller_allocates |-> par.caller_allocates, transfer |-> par.transfer]

(* analyze, lines 212-219: caller_allocates and transfer of the CParameter *)
resolve_ownership(par, conversion) ==
    IF conversion = "Direct" \/ conversion = "Scalar"
    THEN [caller_allocates |-> FALSE, transfer |-> "None"]
    ELSE [caller_allocates |-> par.caller_allocates, transfer |-> par.transfer]

(* analyze, lines 277-296: the step of the conversion category *)
conversion_transformation_type(conversion, name, par, transfer) ==
    CASE conversion = "Direct"  -> [kind |-> "ToGlibDirect", name |-> name]
      [] conversion = "Scalar"  -> [kind |-> "ToGlibScalar", name |-> name]
      [] conversion = "Pointer" -> [kind |-> "ToGlibPointer", name |-> name,
                                    instance_parameter |-> par.instance_parameter,
                                    transfer |-> transfer]
      [] conversion = "Borrow"  -> [kind |-> "ToGlibBorrow"]
      [] conversion = "Unknown" -> [kind |-> "ToGlibUnknown", name |-> name]

(* analyze, lines 303-323: the late substitution for async functions *)
async_transformation_type(transformation_type, is_async) ==
    CASE transformation_type.kind \in {"ToGlibDirect", "ToGlibUnknown"} ->
            IF is_async /\ transformation_type.name = s_callback
            THEN [kind |-> "ToSome", name |-> transformation_type.name]
            ELSE transformation_type
      [] transformation_type.kind = "ToGlibPointer" ->
            IF is_async /\ transformation_type.name = s_user_data
            THEN [kind |-> "IntoRaw", name |-> transformation_type.name]
            ELSE transformation_type
      [] OTHER -> transformation_type

(* mutant: ind_rust is not reset when the parameter is not pushed *)
surface_index_not_reset(add_rust_parameter, rust_parameters) ==
    Some(Len(rust_parameters))

(* analyze, lines 178 and 251-261: the surface index of the step *)
surface_index(add_rust_parameter, rust_parameters) ==
    IF add_rust_parameter THEN Some(Len(rust_parameters)) ELSE None

(* analyze, lines 165-325: one iteration of the loop over the descriptors. *)
(* The result is [panic |-> TRUE] or [panic |-> FALSE, parameters |-> ..]. *)
analyze_parameter(acc, pos, params, configured, disable, is_async, checks) ==
    LET par == params[pos + 1]
        name == IF par.instance_parameter THEN par.name
                ELSE mangle_keywords(par.name)
        configured_parameters == matched_parameters(configured, name)
        typ == override_string_type_parameter(par.typ, configured_parameters)
        ind_c == Len(acc.c_parameters)
        array_name == resolve_array_name(pos, par, params, configured_parameters,
                                         disable, checks)
        add_rust_parameter ==
            IF array_name.val.some THEN FALSE
            ELSE default_add_rust_parameter(par, is_async)
        ind_rust == surface_index(add_rust_parameter, acc.rust_parameters)
        length_steps ==
            IF array_name.val.some
            THEN << [ ind_c |-> ind_c, ind_rust |-> None,
                      transformation_type |->
                          get_length_type(mangle_keywords(array_name.val.val),
                                          par.name, typ) ] >>
            ELSE << >>
        conversion == ConversionType_of(typ)
        own == resolve_ownership(par, conversion)
        c_par == [ name |-> name, typ |-> typ,
                   instance_parameter |-> par.instance_parameter,
                   direction |-> par.direction,
                   transfer |-> own.transfer,
                   caller_allocates |-> own.caller_allocates ]
        rust_pars == IF add_rust_parameter
                     THEN << [ name |-> name, typ |-> typ, ind_c |-> ind_c ] >>
                     ELSE << >>
        transformation ==
            [ ind_c |-> ind_c, ind_rust |-> ind_rust,
              transformation_type |->
                  async_transformation_type(
                      conversion_transformation_type(conversion, name, par,
                                                     own.transfer),
                      is_async) ]
    IN  IF array_name.panic THEN [panic |-> TRUE]
        ELSE [ panic |-> FALSE,
               parameters |->
                 [ rust_parameters |-> acc.rust_parameters \o rust_pars,
                   c_parameters |-> Append(acc.c_parameters, c_par),
                   transformations |->
                       Append(acc.transformations \o length_steps,
                              transformation) ] ]

(* analyze, lines 157-327: the loop from position pos on *)
RECURSIVE analyze_from(_, _, _, _, _, _, _)
analyze_from(acc, pos, params, configured, disable, is_async, checks) ==
    IF pos >= Len(params) THEN [panic |-> FALSE, parameters |-> acc]
    ELSE LET r == analyze_parameter(acc, pos, params, configured, disable,
                                    is_async, checks)
         IN  IF r.panic THEN r
             ELSE analyze_from(r.parameters, pos + 1, params, configured,
                               disable, is_async, checks)

analyze(params, configured, disable, is_async, checks) ==
    analyze_from(Parameters_new, 0, params, configured, disable, is_async, checks)

(* mutant: the back-link is used without looking the parameter up *)
analyze_return_unchecked(self, r) ==
    IF ~r.some THEN self
    ELSE [ self EXCEPT !.transformations =
             Append(@, [ ind_c |-> r.val, ind_rust |-> None,
                         transformation_type |->
                             get_length_type(s_empty, s_empty, "UInt") ]) ]

(* mutant: the step replaces the transformations instead of being appended *)
analyze_return_replaces(self, r) ==
    IF ~r.some THEN self
    ELSE LET par == get(self.c_parameters, r.val)
         IN  IF ~par.some THEN self
             ELSE [ self EXCEPT !.transformations =
                      << [ ind_c |-> r.val, ind_rust |-> None,
                           transformation_type |->
                               get_length_type(s_empty, par.val.name,
                                               par.val.typ) ] >> ]

(* Parameters::analyze_return *)
analyze_return(self, r) ==
    IF ~r.some THEN self
    ELSE LET ind_c == r.val
             par == get(self.c_parameters, ind_c)
         IN  IF ~par.some THEN self
             ELSE [ self EXCEPT !.transformations =
                      Append(@, [ ind_c |-> ind_c, ind_rust |-> None,
                                  transformation_type |->
                                      get_length_type(s_empty, par.val.name,
                                                      par.val.typ) ]) ]

----------------------------------------------------------------------------
(* Inputs.  The descriptor lists are drawn from five families, each the    *)
(* full product of small field sets, of up to MaxParams descriptors.       *)

SeqsUpTo(S, n) == UNION { [1..k -> S] : k \in 0..n }

Descriptors(names, types, directions, links, transfers, allocs, receivers) ==
    [ name : names, typ : types, direction : directions, array_length : links,
      transfer : transfers, caller_allocates : allocs,
      instance_parameter : receivers ]

ConfiguredParameter(ident, length_of, string_type) ==
    [ ident |-> ident, length_of |-> length_of, string_type |-> string_type ]

(* array / length pairs, back-links, length_of overrides, return links *)
InitLength ==
    /\ function_parameters \in SeqsUpTo(
           Descriptors({s_data, s_len}, {"Utf8", "UInt"}, {"In", "Out"},
                       {None, Some(1)}, {"None"}, {FALSE}, {FALSE}), MaxParams)
    /\ configured_functions \in
           { << >>,
             << ConfiguredParameter(s_len, Some(s_data), None) >>,
             << ConfiguredParameter(s_len, Some(s_missing), None) >> }
    /\ disable_length_detect \in BOOLEAN
    /\ async_func = FALSE
    /\ ret \in {None, Some(1), Some(MaxParams)}

(* the naming heuristic and the length-bearing types *)
InitHeuristic ==
    /\ function_parameters \in SeqsUpTo(
           Descriptors({s_length, s_strlen, s_lens},
                       {"AliasUtf8", "AliasUInt", "CArray"},
                       {"In", "InOut", "Return"},
                       {None}, {"None"}, {FALSE}, {FALSE}), MaxParams)
    /\ configured_functions = << >>
    /\ disable_length_detect \in BOOLEAN
    /\ async_func = FALSE
    /\ ret = None

(* names with multi-byte characters *)
InitNonAscii ==
    /\ function_parameters \in SeqsUpTo(
           Descriptors({s_eab, s_elen, s_len}, {"Utf8", "UInt"}, {"In", "Out"},
                       {None}, {"None"}, {FALSE}, {FALSE}), MaxParams)
    /\ configured_functions = << >>
    /\ disable_length_detect \in BOOLEAN
    /\ async_func = FALSE
    /\ ret = None

(* async functions, every conversion category, a keyword name *)
InitAsync ==
    /\ function_parameters \in SeqsUpTo(
           Descriptors({s_callback, s_user_data, s_length_data, s_type},
                       {"UInt", "Boolean", "Utf8", "Unsupported", "Borrowed"},
                       {"In"}, {None}, {"None"}, {FALSE}, {FALSE}), MaxParams)
    /\ configured_functions = << >>
    /\ disable_length_detect \in BOOLEAN
    /\ async_func \in BOOLEAN
    /\ ret = None

(* ownership flags, out parameters, receivers, the string-type override *)
InitOwnership ==
    /\ function_parameters \in SeqsUpTo(
           Descriptors({s_type}, {"UInt", "Boolean", "Utf8"},
                       {"Out"}, {None}, {"None", "Full"}, BOOLEAN, BOOLEAN),
           MaxParams)
    /\ configured_functions \in
           { << >>, << ConfiguredParameter(s_type_, None, Some("Filename")) >> }
    /\ disable_length_detect = FALSE
    /\ async_func \in BOOLEAN
    /\ ret = Some(0)

Init ==
    /\ InitLength \/ InitHeuristic \/ InitNonAscii \/ InitAsync \/ InitOwnership
    /\ overflow_checks \in BOOLEAN
    /\ pc = "start"
    /\ parameters = Parameters_new

inputs == << function_parameters, configured_functions, disable_length_detect,
             async_func, ret, overflow_checks >>

(* the call of analyze: it returns the Parameters value or panics (the    *)
(* subtraction in detect_length, the byte slice in is_length)             *)
Analyze ==
    /\ pc = "start"
    /\ LET r == analyze(function_parameters, configured_functions,
                        disable_length_detect, async_func, overflow_checks)
       IN  /\ pc' = IF r.panic THEN "panicked" ELSE "analyzed"
           /\ parameters' = IF r.panic THEN parameters ELSE r.parameters
    /\ UNCHANGED inputs

(* the follow-up call of analyze_return on the value analyze returned *)
AnalyzeReturn ==
    /\ pc = "analyzed"
    /\ parameters' = analyze_return(parameters, ret)
    /\ pc' = "returned"
    /\ UNCHANGED inputs

Next == Analyze \/ AnalyzeReturn

Spec == Init /\ [][Next]_vars

----------------------------------------------------------------------------
(* Vocabulary of the properties *)

R == parameters.rust_parameters
C == parameters.c_parameters
T == parameters.transformations

Positions == 0..(Len(function_parameters) - 1)
Descriptor(pos) == function_parameters[pos + 1]

LengthSteps(i) ==
    { k \in 1..Len(T) : T[k].ind_c = i /\ T[k].transformation_type.kind = "Length" }
PrimarySteps(i) ==
    { k \in 1..Len(T) : T[k].ind_c = i /\ is_to_glib(T[k].transformation_type) }
OnSurface(i) == \E r \in 1..Len(R) : R[r].ind_c = i

(* the working name and type of the parameter at pos (steps 1-3 of the pass) *)
WorkingName(pos) ==
    IF Descriptor(pos).instance_parameter THEN Descriptor(pos).name
    ELSE mangle_keywords(Descriptor(pos).name)
Matching(pos) ==
    { k \in 1..Len(configured_functions) :
        configured_functions[k].ident = WorkingName(pos) }
WorkingType(pos) ==
    IF /\ \E k \in Matching(pos) : configured_functions[k].string_type.some
       /\ Descriptor(pos).typ = "Utf8"
    THEN "Filename" ELSE Descriptor(pos).typ
Category(pos) == ConversionType_of(WorkingType(pos))
CategoryStep(category) ==
    CASE category = "Direct"  -> "ToGlibDirect"
      [] category = "Scalar"  -> "ToGlibScalar"
      [] category = "Pointer" -> "ToGlibPointer"
      [] category = "Borrow"  -> "ToGlibBorrow"
      [] category = "Unknown" -> "ToGlibUnknown"

(* the three sources of a length link, as the specification words them *)
Overrides(pos) ==
    LET with == { k \in Matching(pos) : configured_functions[k].length_of.some }
    IN  { configured_functions[k].length_of.val :
            k \in { j \in with : \A i \in with : j <= i } }
BackLinks(pos) ==
    { function_parameters[j].name :
        j \in { i \in 1..Len(function_parameters) :
                  /\ function_parameters[i].array_length.some
                  /\ function_parameters[i].array_length.val = pos } }
LengthCandidate(pos) ==
    /\ Descriptor(pos).direction = "In"
    /\ \/ ends_with(Descriptor(pos).name, s_len)
       \/ contains(Descriptor(pos).name, s_length)
HeuristicMatch(pos) ==
    /\ LengthCandidate(pos)
    /\ pos >= 1
    /\ has_length(Descriptor(pos - 1).typ)
(* the arrays the parameter at pos may be paired with, in priority order *)
ResolvedArrays(pos) ==
    IF Overrides(pos) # {} THEN Overrides(pos)
    ELSE IF BackLinks(pos) # {} THEN BackLinks(pos)
    ELSE IF ~disable_length_detect /\ HeuristicMatch(pos)
         THEN { Descriptor(pos - 1).name }
    ELSE {}

ParameterNames ==
    { function_parameters[j].name : j \in 1..Len(function_parameters) }

In(name, typ) ==
    [ name |-> name, typ |-> typ, direction |-> "In", array_length |-> None,
      transfer |-> "None", caller_allocates |-> FALSE,
      instance_parameter |-> FALSE ]

(* Scenario A: [data: array (In), len: integer (In)], detection enabled *)
ScenarioA ==
    /\ function_parameters = << In(s_data, "Utf8"), In(s_len, "UInt") >>
    /\ configured_functions = << >>
    /\ ~disable_length_detect
    /\ ~async_func

PointerStep(name, ind_c, ind_rust) ==
    [ ind_c |-> ind_c, ind_rust |-> ind_rust,
      transformation_type |->
          [ kind |-> "ToGlibPointer", name |-> name,
            instance_parameter |-> FALSE, transfer |-> "None" ] ]
LengthStep(array, length, spelling, ind_c) ==
    [ ind_c |-> ind_c, ind_rust |-> None,
      transformation_type |->
          [ kind |-> "Length", array_name |-> array,
            array_length_name |-> length, array_length_type |-> spelling ] ]
DirectStep(name, ind_c, ind_rust) ==
    [ ind_c |-> ind_c, ind_rust |-> ind_rust,
      transformation_type |-> [ kind |-> "ToGlibDirect", name |-> name ] ]

----------------------------------------------------------------------------
(* Properties *)

(* C1, as claimed: a parameter folded as a length parameter has exactly    *)
(* one Length step at its native index and no primary conversion step at   *)
(* that index; Scenario A gives exactly [Pointer(data), Length(data,len)]. *)
C1_FoldedHasNoPrimaryStep ==
    pc = "analyzed" =>
        /\ \A pos \in Positions :
              ResolvedArrays(pos) # {} =>
                  /\ Cardinality(LengthSteps(pos)) = 1
                  /\ PrimarySteps(pos) = {}
        /\ ScenarioA =>
              T = << PointerStep(s_data, 0, Some(0)),
                     LengthStep(s_data, s_len, "u32", 1) >>

(* C1, amended: a parameter folded as a length parameter is off the        *)
(* surface list and has exactly one Length step at its native index,       *)
(* immediately followed by its one primary conversion step, which carries  *)
(* no surface index; Scenario A gives                                      *)
(* [Pointer(data), Length(data,len), Direct(len)].                         *)
C1_FoldedHasLengthThenPrimary ==
    pc = "analyzed" =>
        /\ \A pos \in Positions :
              ResolvedArrays(pos) # {} =>
                  /\ ~OnSurface(pos)
                  /\ Cardinality(LengthSteps(pos)) = 1
                  /\ Cardinality(PrimarySteps(pos)) = 1
                  /\ \A l \in LengthSteps(pos) : PrimarySteps(pos) = { l + 1 }
                  /\ \A k \in PrimarySteps(pos) : T[k].ind_rust = None
        /\ ScenarioA =>
              T = << PointerStep(s_data, 0, Some(0)),
                     LengthStep(s_data, s_len, "u32", 1),
                     DirectStep(s_len, 1, None) >>

C1_Witness == pc = "analyzed" /\ ScenarioA

(* C2: in every value produced by analyze, and after analyze_return, every *)
(* step has ind_c < len(c_parameters) and, when ind_rust is present,       *)
(* ind_rust < len(rust_parameters).                                        *)
C2_IndicesInRange ==
    pc \in {"analyzed", "returned"} =>
        \A k \in 1..Len(T) :
            /\ T[k].ind_c < Len(C)
            /\ T[k].ind_rust.some => T[k].ind_rust.val < Len(R)

C2_Witness ==
    /\ pc = "returned"
    /\ \E k \in 1..Len(T) : T[k].ind_rust.some
    /\ \E k \in 1..Len(T) : T[k].ind_rust = None /\ T[k].ind_c = Len(C) - 1
    /\ ret.some /\ ret.val >= Len(C)

(* C3, as claimed: analyze never fails, and a length candidate without a   *)
(* qualifying preceding array (position 0 included) gets no Length step.   *)
C3_AnalyzeNeverFails ==
    /\ pc # "panicked"
    /\ pc = "analyzed" =>
          \A pos \in Positions :
              ( /\ LengthCandidate(pos)
                /\ ~HeuristicMatch(pos)
                /\ Overrides(pos) = {}
                /\ BackLinks(pos) = {} ) => LengthSteps(pos) = {}

(* C4, as claimed: after analyze and analyze_return every native index has *)
(* at most one primary conversion step and at most one Length step.        *)
C4_AtMostOneStepOfEachKind ==
    pc = "returned" =>
        \A i \in 0..(Len(C) - 1) :
            /\ Cardinality(PrimarySteps(i)) <= 1
            /\ Cardinality(LengthSteps(i)) <= 1

(* C5: c_parameters has one entry per descriptor, entry i carrying the     *)
(* working name and the direction of descriptor i, folded or not; and      *)
(* analyze_return leaves c_parameters and rust_parameters unchanged and    *)
(* only appends to transformations.                                        *)
C5_NativeListOneToOne ==
    [][ /\ pc' \in {"analyzed", "returned"} =>
              /\ Len(C') = Len(function_parameters)
              /\ \A pos \in Positions :
                    /\ C'[pos + 1].name = WorkingName(pos)
                    /\ C'[pos + 1].direction = Descriptor(pos).direction
        /\ pc = "analyzed" =>
              /\ C' = C
              /\ R' = R
              /\ Len(T') >= Len(T)
              /\ SubSeq(T', 1, Len(T)) = T ]_vars

C5_Witness ==
    /\ pc = "returned"
    /\ Len(C) = MaxParams
    /\ \E pos \in Positions : ~OnSurface(pos) /\ LengthSteps(pos) # {}
    /\ T[Len(T)].transformation_type.kind = "Length"
    /\ T[Len(T)].transformation_type.array_name = s_empty

(* C6, as claimed: the array of the parameter at pos is the configuration  *)
(* override, else a back-link to pos, else the heuristic, which is         *)
(* consulted only when detection is not disabled; with detection disabled  *)
(* and neither override nor back-link a heuristic-matching parameter stays *)
(* on the surface list with its ordinary step and no Length step.          *)
C6_PriorityAndStaysOnSurface ==
    pc = "analyzed" =>
        \A pos \in Positions :
            /\ ResolvedArrays(pos) = {} => LengthSteps(pos) = {}
            /\ ResolvedArrays(pos) # {} =>
                  /\ LengthSteps(pos) # {}
                  /\ \A k \in LengthSteps(pos) :
                        \E a \in ResolvedArrays(pos) :
                            T[k].transformation_type.array_name
                                = mangle_keywords(a)
            /\ ( /\ disable_length_detect
                 /\ Overrides(pos) = {}
                 /\ BackLinks(pos) = {}
                 /\ HeuristicMatch(pos) ) =>
                  /\ OnSurface(pos)
                  /\ LengthSteps(pos) = {}
                  /\ \A k \in PrimarySteps(pos) :
                        T[k].transformation_type.kind
                            = CategoryStep(Category(pos))

(* C6, amended: the same, the parameter staying on the surface list unless *)
(* the function is async and the parameter's name ends in "data".          *)
C6_PriorityAndNoLengthStep ==
    pc = "analyzed" =>
        \A pos \in Positions :
            /\ ResolvedArrays(pos) = {} => LengthSteps(pos) = {}
            /\ ResolvedArrays(pos) # {} =>
                  /\ LengthSteps(pos) # {}
                  /\ \A k \in LengthSteps(pos) :
                        \E a \in ResolvedArrays(pos) :
                            T[k].transformation_type.array_name
                                = mangle_keywords(a)
            /\ ( /\ disable_length_detect
                 /\ Overrides(pos) = {}
                 /\ BackLinks(pos) = {}
                 /\ HeuristicMatch(pos) ) =>
                  /\ OnSurface(pos)
                        <=> ~(async_func /\ ends_with(Descriptor(pos).name, s_data))
                  /\ LengthSteps(pos) = {}
                  /\ PrimarySteps(pos) # {}
                  /\ \A k \in PrimarySteps(pos) :
                        T[k].transformation_type.kind
                            = CategoryStep(Category(pos))

C6_Witness ==
    /\ pc = "analyzed"
    /\ disable_length_detect
    /\ \E pos \in Positions :
          /\ HeuristicMatch(pos)
          /\ Overrides(pos) = {}
          /\ BackLinks(pos) = {}
          /\ OnSurface(pos)
          /\ LengthSteps(pos) = {}

(* C7: in an async function every parameter named "user_data" or ending in *)
(* "data" is off the surface list and its step has no ind_rust, the step   *)
(* of a Direct or Unknown "callback" is ToSome and that of a Pointer       *)
(* "user_data" is IntoRaw; otherwise no ToSome or IntoRaw step exists and  *)
(* every primary step is the one of its conversion category.               *)
C7_AsyncRestructuring ==
    pc = "analyzed" =>
        /\ async_func =>
              \A pos \in Positions :
                  /\ Cardinality(PrimarySteps(pos)) = 1
                  /\ ( \/ Descriptor(pos).name = s_user_data
                       \/ ends_with(Descriptor(pos).name, s_data) ) =>
                        /\ ~OnSurface(pos)
                        /\ \A k \in PrimarySteps(pos) : T[k].ind_rust = None
                  /\ ( /\ Descriptor(pos).name = s_callback
                       /\ Category(pos) \in {"Direct", "Unknown"} ) =>
                        \A k \in PrimarySteps(pos) :
                            T[k].transformation_type.kind = "ToSome"
                  /\ ( /\ Descriptor(pos).name = s_user_data
                       /\ Category(pos) = "Pointer" ) =>
                        \A k \in PrimarySteps(pos) :
                            T[k].transformation_type.kind = "IntoRaw"
        /\ ~async_func =>
              /\ \A k \in 1..Len(T) :
                    T[k].transformation_type.kind \notin {"ToSome", "IntoRaw"}
              /\ \A pos \in Positions :
                    /\ Cardinality(PrimarySteps(pos)) = 1
                    /\ \A k \in PrimarySteps(pos) :
                          T[k].transformation_type.kind
                              = CategoryStep(Category(pos))

C7_Witness ==
    /\ pc = "analyzed"
    /\ async_func
    /\ \E k \in 1..Len(T) : T[k].transformation_type.kind = "ToSome"
    /\ \E k \in 1..Len(T) :
          /\ T[k].transformation_type.kind = "IntoRaw"
          /\ T[k].ind_rust = None

(* C8, as claimed: when the array named for a length parameter is not      *)
(* among the function's parameters, no Length step is emitted for it and   *)
(* it is not removed from the surface list on that account.                *)
C8_MissingArraySkipsLengthStep ==
    pc = "analyzed" =>
        \A pos \in Positions :
            ( /\ ResolvedArrays(pos) # {}
              /\ ResolvedArrays(pos) \cap ParameterNames = {} ) =>
                /\ LengthSteps(pos) = {}
                /\ OnSurface(pos)
                      <=> default_add_rust_parameter(Descriptor(pos), async_func)

(* C9: a parameter of Direct or Scalar category gets caller_allocates =    *)
(* false and transfer = None whatever its descriptor declares; a parameter *)
(* of any other category keeps both declared values.                       *)
C9_ScalarOverride ==
    pc \in {"analyzed", "returned"} =>
        \A pos \in Positions :
            IF Category(pos) \in {"Direct", "Scalar"}
            THEN /\ C[pos + 1].caller_allocates = FALSE
                 /\ C[pos + 1].transfer = "None"
            ELSE /\ C[pos + 1].caller_allocates = Descriptor(pos).caller_allocates
                 /\ C[pos + 1].transfer = Descriptor(pos).transfer

C9_Witness ==
    /\ pc = "analyzed"
    /\ \E pos \in Positions :
          /\ Category(pos) = "Scalar"
          /\ Descriptor(pos).transfer = "Full"
          /\ Descriptor(pos).caller_allocates
          /\ C[pos + 1].transfer = "None"
          /\ ~C[pos + 1].caller_allocates
    /\ \E pos \in Positions :
          /\ Category(pos) = "Pointer"
          /\ C[pos + 1].transfer = "Full"
          /\ C[pos + 1].caller_allocates

(* C10: in the result of analyze a step with ind_rust = Some(r) has the    *)
(* ind_c of rust_parameters[r]; every surface parameter is referenced by   *)
(* exactly one step; the ind_c of rust_parameters strictly increase; the   *)
(* steps are in non-decreasing ind_c order, a Length step coming           *)
(* immediately before the primary step of its parameter.                   *)
C10_IndexConsistency ==
    pc = "analyzed" =>
        /\ \A k \in 1..Len(T) :
              T[k].ind_rust.some =>
                  /\ T[k].ind_rust.val < Len(R)
                  /\ R[T[k].ind_rust.val + 1].ind_c = T[k].ind_c
        /\ \A r \in 1..Len(R) :
              Cardinality({ k \in 1..Len(T) : T[k].ind_rust = Some(r - 1) }) = 1
        /\ \A r \in 1..(Len(R) - 1) : R[r].ind_c < R[r + 1].ind_c
        /\ \A k \in 1..(Len(T) - 1) : T[k].ind_c <= T[k + 1].ind_c
        /\ \A k \in 1..Len(T) :
              T[k].transformation_type.kind = "Length" =>
                  /\ k < Len(T)
                  /\ is_to_glib(T[k + 1].transformation_type)
                  /\ T[k + 1].ind_c = T[k].ind_c

C10_Witness ==
    /\ pc = "analyzed"
    /\ Len(C) = MaxParams
    /\ Len(R) >= 1
    /\ Len(R) < Len(C)
    /\ \E k \in 1..Len(T) : T[k].transformation_type.kind = "Length"

====
